---- MODULE Spec2Model ----
(***************************************************************************)
(* The stock ledger of the coal stock manager: the stock table and the     *)
(* handlers that change it (createProductionRecord, createBargingRecord,   *)
(* createStockAdjustment), run by concurrent callers against one           *)
(* PostgreSQL store.                                                       *)
(*                                                                         *)
(* Tonnages are counted in whole units of the column scale of              *)
(* numeric(12, 2), where storing and re-reading a value is exact.          *)
(*                                                                         *)
(* The store is PostgreSQL at its default isolation level, READ COMMITTED: *)
(* a statement outside db.transaction commits on its own; inside           *)
(* db.transaction the writes are pending until COMMIT and invisible to     *)
(* other callers; every SELECT reads the committed rows; an UPDATE locks   *)
(* the row until its transaction ends, and an UPDATE that finds the row    *)
(* locked waits and then evaluates its WHERE on the newly committed row.   *)
(***************************************************************************)
EXTENDS Integers, Sequences, FiniteSets, TLC

\* ---------------------------------------------------------------- bounds
MaxCalls == 2          \* handler calls started in one behaviour, all may overlap
MaxTonnage == 2        \* largest tonnage / adjustment amount of an input
MaxTime == 1           \* latest instant (in days) of a call or a presented exp

\* the calls: up to two made before the behaviour starts, MaxCalls in it
CallIds == 1..(MaxCalls + 2)
Contractors == {"c1"}
Jetties == {"j1"}
Amounts == (0 - MaxTonnage)..MaxTonnage

\* contractorsTable, jettiesTable, usersTable: an active and an inactive row
\* each, and a second active jetty (the handlers modelled here change
\* deleted_at of contractors only, which is a variable)
contractorsTable ==
  {[id |-> "c1", is_active |-> TRUE], [id |-> "c2", is_active |-> FALSE]}
jettiesTable ==
  {[id |-> "j1", is_active |-> TRUE], [id |-> "j2", is_active |-> FALSE],
   [id |-> "j4", is_active |-> TRUE]}
usersTable ==
  {[id |-> 1, is_active |-> TRUE], [id |-> 2, is_active |-> FALSE]}

\* the ids a handler can be called with: the last of each names no row
ContractorIds == {"c1", "c2", "c3"}
JettyIds == {"j1", "j2", "j3"}
UserIds == {1, 2, 3}

VARIABLES
  stock,               \* stockTable: sequence of rows, the serial id is the index
  production_records,  \* productionRecordsTable (committed rows)
  barging_records,     \* bargingRecordsTable (committed rows)
  stock_adjustments,   \* stockAdjustmentsTable (committed rows)
  audit_log,           \* auditLogTable (committed rows)
  pc,                  \* per call: the statement it executes next
  cur,                 \* per call: the stock row its SELECT returned
  tx,                  \* per call: the pending writes of its open transaction
  calls,               \* every call started: its input, its outcome, what it did
  history,             \* every (row, version, tonnage) ever committed
  deleted_at           \* contractorsTable.deleted_at per contractor row: 0 is
                       \* NULL, else the instant (the call) that set it

vars == <<stock, production_records, barging_records, stock_adjustments,
          audit_log, pc, cur, tx, calls, history, deleted_at>>

tables == <<stock, production_records, barging_records, stock_adjustments,
            audit_log, history, deleted_at>>

\* ---------------------------------------------------------------- helpers
NoRow == [id |-> 0, tonnage |-> 0, version |-> 0]
NoTx == [update |-> NoRow, inserts |-> {}]

Row(r) == [id |-> r, tonnage |-> stock[r].tonnage, version |-> stock[r].version]

\* rows a SELECT ... WHERE contractor_id = c AND jetty_id = j returns
RowsOf(c, j) ==
  {r \in DOMAIN stock : stock[r].contractor_id = c /\ stock[r].jetty_id = j}

\* the row is locked by the pending UPDATE of another caller's transaction
LockedByOther(r, p) == \E q \in CallIds : q # p /\ tx[q].update.id = r

RowStates(s) ==
  {[row |-> r, version |-> s[r].version, tonnage |-> s[r].tonnage] : r \in DOMAIN s}

Call(p) == calls[p]

NewCall(kind, c, j, sid, amount) ==
  [kind |-> kind, contractor_id |-> c, jetty_id |-> j, stock_id |-> sid,
   amount |-> amount, result |-> "running", row |-> 0, created |-> FALSE,
   applied |-> FALSE, stale |-> FALSE, failed_at |-> "", earlier |-> FALSE,
   operator_id |-> 1]

\* the production intake, made before the behaviour starts, that created the
\* stock row the behaviour starts with
EarlierIntake(tonnage) ==
  [NewCall("production", "c1", "j1", 0, tonnage) EXCEPT
     !.result = "ok", !.row = 1, !.created = TRUE, !.applied = TRUE,
     !.earlier = TRUE]

\* a new call p starts: any number of calls may be in progress
Starts(p) ==
  /\ p = Len(calls) + 1
  /\ Cardinality({c \in DOMAIN calls : ~calls[c].earlier}) < MaxCalls

\* the call of p returns (or throws) res; its transaction, if any, is over
Return(p, res) ==
  /\ pc' = [pc EXCEPT ![p] = "done"]
  /\ cur' = [cur EXCEPT ![p] = NoRow]
  /\ tx' = [tx EXCEPT ![p] = NoTx]
  /\ calls' = [calls EXCEPT ![p] = res]

Throw(p, error) == Return(p, [Call(p) EXCEPT !.result = error])

Goto(p, label) ==
  /\ pc' = [pc EXCEPT ![p] = label]
  /\ UNCHANGED calls

\* an UPDATE of row r WHERE version = v can execute now: either the committed
\* row does not satisfy the WHERE (no row matched, nothing to wait for) or no
\* other transaction holds the row
CanUpdate(r, p, matches) == ~matches \/ ~LockedByOther(r, p)

\* the WHERE without its version condition
VersionMatches_Unchecked(r, version) == TRUE

\* a version condition no row satisfies
VersionMatches_Never(r, version) == FALSE

\* WHERE ... AND version = <the version read>
VersionMatches(r, version) == stock[r].version = version

SetRow(r, tonnage, version) ==
  [stock EXCEPT ![r] = [@ EXCEPT !.tonnage = tonnage, !.version = version]]

\* ---------------------------------------------------------------- Init
\* the tables after the calls in started, each a production intake that
\* created the row of its pair, have finished and nothing else has run
After(started) ==
  /\ stock = [c \in DOMAIN started |->
               [contractor_id |-> started[c].contractor_id,
                jetty_id |-> started[c].jetty_id,
                tonnage |-> started[c].amount, version |-> 1]]
  /\ production_records =
       {[id |-> c, contractor_id |-> started[c].contractor_id,
         jetty_id |-> started[c].jetty_id, tonnage |-> started[c].amount] :
        c \in DOMAIN started}
  /\ barging_records = {}
  /\ stock_adjustments = {}
  /\ audit_log = {}
  /\ cur = [p \in CallIds |-> NoRow]
  /\ tx = [p \in CallIds |-> NoTx]
  /\ history = RowStates(stock)
  /\ deleted_at = [c \in {r.id : r \in contractorsTable} |-> 0]

\* no stock row yet, or the one row a first production intake has created
Init ==
  /\ \E started \in {<<>>} \cup {<<EarlierIntake(t)>> : t \in 1..MaxTonnage} :
       /\ calls = started
       /\ After(started)
  /\ pc = [p \in CallIds |-> IF p \in DOMAIN calls THEN "done" ELSE "idle"]

\* ---------------------------------------------------------------- request layer
\* tonnage: z.number().positive()
createProductionRecordInputSchema(tonnage) == tonnage > 0

createBargingRecordInputSchema(tonnage) == tonnage > 0

\* production.create: the input passed its schema, createProductionRecord starts
CallCreateProductionRecord(p) ==
  /\ Starts(p)
  /\ \E c \in Contractors, j \in Jetties, tonnage \in Amounts :
       /\ createProductionRecordInputSchema(tonnage)
       /\ calls' = Append(calls, NewCall("production", c, j, 0, tonnage))
  /\ pc' = [pc EXCEPT ![p] = "prod_validate"]
  /\ UNCHANGED <<tables, cur, tx>>

\* createProductionRecord called directly, as the handler tests do: any ids,
\* any tonnage
InvokeCreateProductionRecord(p) ==
  /\ Starts(p)
  /\ \E c \in ContractorIds, j \in JettyIds, operator \in UserIds,
        tonnage \in Amounts :
       calls' = Append(calls, [NewCall("production", c, j, 0, tonnage)
                                 EXCEPT !.operator_id = operator])
  /\ pc' = [pc EXCEPT ![p] = "prod_validate"]
  /\ UNCHANGED <<tables, cur, tx>>

\* ---------------------------------------------------------------- createProductionRecord
\* a lookup that does not filter on is_active
ActiveRows_Any(table, id) == {r \in table : r.id = id}

\* SELECT ... WHERE id = <id> AND is_active = true
ActiveRows(table, id) == {r \in table : r.id = id /\ r.is_active}

\* 1.-3. Validate that contractor, jetty and operator exist and are active
\* (three SELECTs on tables nothing here changes); the first that finds no
\* row throws
Prod_Validate(p) ==
  /\ pc[p] = "prod_validate"
  /\ IF ActiveRows(contractorsTable, Call(p).contractor_id) = {}
       THEN Throw(p, "contractor not found or inactive")
     ELSE IF ActiveRows(jettiesTable, Call(p).jetty_id) = {}
       THEN Throw(p, "jetty not found or inactive")
     ELSE IF ActiveRows(usersTable, Call(p).operator_id) = {}
       THEN Throw(p, "operator not found or inactive")
     ELSE Goto(p, "prod_insert") /\ UNCHANGED <<cur, tx>>
  /\ UNCHANGED tables

\* 4. Insert production record (no transaction: committed at once)
Prod_InsertRecord(p) ==
  /\ pc[p] = "prod_insert"
  /\ production_records' = production_records \cup
       {[id |-> p, contractor_id |-> Call(p).contractor_id,
         jetty_id |-> Call(p).jetty_id, tonnage |-> Call(p).amount]}
  /\ Goto(p, "prod_select")
  /\ UNCHANGED <<stock, barging_records, stock_adjustments, audit_log, history,
                 cur, tx,
                 deleted_at>>

\* 5. SELECT the stock row of the pair, LIMIT 1 (no ORDER BY: any matching row)
Prod_SelectStock(p) ==
  /\ pc[p] = "prod_select"
  /\ LET rows == RowsOf(Call(p).contractor_id, Call(p).jetty_id) IN
       IF rows = {}
         THEN cur' = [cur EXCEPT ![p] = NoRow]
         ELSE \E r \in rows : cur' = [cur EXCEPT ![p] = Row(r)]
  /\ Goto(p, "prod_write")
  /\ UNCHANGED <<tables, tx>>

\* what createProductionRecord does with the result of its UPDATE: nothing,
\* the call returns its production record whether a row matched or not
Prod_UpdateResult(matched) == "ok"

\* existingStock.length > 0: UPDATE ... WHERE id AND version, result not looked at
Prod_UpdateStock(p) ==
  /\ pc[p] = "prod_write"
  /\ cur[p].id # 0
  /\ LET r == cur[p].id
         matched == VersionMatches(r, cur[p].version)
         newTonnage == cur[p].tonnage + Call(p).amount
     IN /\ CanUpdate(r, p, matched)
        /\ stock' = IF matched THEN SetRow(r, newTonnage, cur[p].version + 1)
                               ELSE stock
        /\ Return(p, [Call(p) EXCEPT !.result = Prod_UpdateResult(matched),
                                     !.row = r, !.applied = matched])
  /\ history' = history \cup RowStates(stock')
  /\ UNCHANGED <<production_records, barging_records, stock_adjustments,
                 audit_log,
                 deleted_at>>

\* else: INSERT a new stock row, version 1 (the table has no unique
\* constraint on (contractor_id, jetty_id))
Prod_InsertStock(p) ==
  /\ pc[p] = "prod_write"
  /\ cur[p].id = 0
  /\ stock' = Append(stock, [contractor_id |-> Call(p).contractor_id,
                             jetty_id |-> Call(p).jetty_id,
                             tonnage |-> Call(p).amount, version |-> 1])
  /\ Return(p, [Call(p) EXCEPT !.result = "ok", !.row = Len(stock) + 1,
                               !.created = TRUE, !.applied = TRUE])
  /\ history' = history \cup RowStates(stock')
  /\ UNCHANGED <<production_records, barging_records, stock_adjustments,
                 audit_log,
                 deleted_at>>

\* ---------------------------------------------------------------- db.transaction
\* a commit that loses the pending write to the stock table
CommitStock_Dropped(p) == stock

\* COMMIT: the pending UPDATE of the stock row becomes the committed row
\* (or the pending INSERT a new row)
CommitStock(p) ==
  IF "stock" \in tx[p].inserts
    THEN Append(stock, [contractor_id |-> Call(p).contractor_id,
                        jetty_id |-> Call(p).jetty_id,
                        tonnage |-> Call(p).amount, version |-> 1])
  ELSE IF tx[p].update.id = 0 THEN stock
  ELSE SetRow(tx[p].update.id, tx[p].update.tonnage, tx[p].update.version)

\* a rollback that leaves the stock update of the transaction in place
RollbackStock_KeepsUpdate(p) == CommitStock(p)

\* ROLLBACK (the callback threw): the pending writes are dropped
RollbackStock(p) == stock

\* the barging record createBargingRecord inserts
BargingRecord(p) ==
  [id |-> p, contractor_id |-> Call(p).contractor_id,
   jetty_id |-> Call(p).jetty_id, tonnage |-> Call(p).amount]

\* a rollback that leaves the inserted barging record in place
RollbackBargingRecords_Kept(p) ==
  IF "barging_records" \in tx[p].inserts
    THEN barging_records \cup {BargingRecord(p)}
    ELSE barging_records

\* ROLLBACK: the pending INSERT into barging_records is dropped
RollbackBargingRecords(p) == barging_records

\* the callback of db.transaction throws: ROLLBACK, the handler rethrows
Abort(p, error) ==
  /\ stock' = RollbackStock(p)
  /\ barging_records' = RollbackBargingRecords(p)
  /\ Throw(p, error)
  /\ history' = history \cup RowStates(stock')
  /\ UNCHANGED <<production_records, stock_adjustments, audit_log,
                 deleted_at>>

\* ---------------------------------------------------------------- createBargingRecord
\* barging.create: the input passed its schema, createBargingRecord starts
CallCreateBargingRecord(p) ==
  /\ Starts(p)
  /\ \E c \in Contractors, j \in Jetties, tonnage \in Amounts :
       /\ createBargingRecordInputSchema(tonnage)
       /\ calls' = Append(calls, NewCall("barging", c, j, 0, tonnage))
  /\ pc' = [pc EXCEPT ![p] = "barge_validate"]
  /\ UNCHANGED <<tables, cur, tx>>

\* createBargingRecord called directly, as the handler tests do: any ids, any
\* tonnage
InvokeCreateBargingRecord(p) ==
  /\ Starts(p)
  /\ \E c \in ContractorIds, j \in JettyIds, operator \in UserIds,
        tonnage \in Amounts :
       calls' = Append(calls, [NewCall("barging", c, j, 0, tonnage)
                                 EXCEPT !.operator_id = operator])
  /\ pc' = [pc EXCEPT ![p] = "barge_validate"]
  /\ UNCHANGED <<tables, cur, tx>>

\* what the validation of one entity throws: '' when the row exists and is
\* active
EntityError(table, id, name) ==
  IF \A r \in table : r.id # id THEN name \o " not found"
  ELSE IF \E r \in table : r.id = id /\ ~r.is_active THEN name \o " inactive"
  ELSE ""

\* 1.-3. in the transaction: validate contractor, jetty and operator (SELECT
\* by id; no row: 'not found'; !is_active: 'is inactive')
Barge_Validate(p) ==
  /\ pc[p] = "barge_validate"
  /\ LET contractor == EntityError(contractorsTable, Call(p).contractor_id, "contractor")
         jetty == EntityError(jettiesTable, Call(p).jetty_id, "jetty")
         operator == EntityError(usersTable, Call(p).operator_id, "operator")
     IN IF contractor # "" THEN Abort(p, contractor)
        ELSE IF jetty # "" THEN Abort(p, jetty)
        ELSE IF operator # "" THEN Abort(p, operator)
        ELSE /\ Goto(p, "barge_select")
             /\ UNCHANGED <<tables, cur, tx>>

\* the availability check left out
InsufficientStock_Unchecked(currentStock, bargingTonnage) == FALSE

\* the availability check made strict: the whole balance cannot be drawn
InsufficientStock_Strict(currentStock, bargingTonnage) ==
  currentStock <= bargingTonnage

\* currentStock < bargingTonnage
InsufficientStock(currentStock, bargingTonnage) == currentStock < bargingTonnage

\* an outflow that creates the missing row of its pair before it fails
Barge_NoStock_Creates(p) ==
  /\ stock' = Append(stock, [contractor_id |-> Call(p).contractor_id,
                             jetty_id |-> Call(p).jetty_id,
                             tonnage |-> 0, version |-> 1])
  /\ barging_records' = barging_records
  /\ Throw(p, "no stock found")
  /\ history' = history \cup RowStates(stock')
  /\ UNCHANGED <<production_records, stock_adjustments, audit_log,
                 deleted_at>>

\* stockRecord.length === 0: throw 'No stock found for this contractor-jetty
\* combination'
Barge_NoStock(p) == Abort(p, "no stock found")

\* 4. SELECT the stock row of the pair (stockRecord[0]: any matching row), then
\* the checks on it; a failed check throws and the transaction rolls back
Barge_SelectStock(p) ==
  /\ pc[p] = "barge_select"
  /\ LET rows == RowsOf(Call(p).contractor_id, Call(p).jetty_id) IN
       IF rows = {}
         THEN Barge_NoStock(p)
         ELSE \E r \in rows :
           IF Call(p).amount <= 0
             THEN Abort(p, "tonnage must be positive")
           ELSE IF InsufficientStock(stock[r].tonnage, Call(p).amount)
             THEN Abort(p, "insufficient stock")
           ELSE /\ cur' = [cur EXCEPT ![p] = Row(r)]
                /\ Goto(p, "barge_insert")
                /\ UNCHANGED <<tables, tx>>

\* 5. INSERT the barging record (pending until COMMIT)
Barge_InsertRecord(p) ==
  /\ pc[p] = "barge_insert"
  /\ tx' = [tx EXCEPT ![p].inserts = @ \cup {"barging_records"}]
  /\ Goto(p, "barge_update")
  /\ UNCHANGED <<tables, cur>>

\* 6. UPDATE ... SET version = version + 1 WHERE id AND version, RETURNING;
\* no row returned: throw
Barge_UpdateStock(p) ==
  /\ pc[p] = "barge_update"
  /\ LET r == cur[p].id
         matched == VersionMatches(r, cur[p].version)
         newTonnage == cur[p].tonnage - Call(p).amount
     IN /\ CanUpdate(r, p, matched)
        /\ IF matched
             THEN /\ tx' = [tx EXCEPT ![p].update =
                      [id |-> r, tonnage |-> newTonnage,
                       version |-> stock[r].version + 1]]
                  /\ Goto(p, "barge_commit")
                  /\ UNCHANGED <<tables, cur>>
             ELSE Abort(p, "modified by another")

\* the callback returns: COMMIT
Barge_Commit(p) ==
  /\ pc[p] = "barge_commit"
  /\ stock' = CommitStock(p)
  /\ barging_records' = barging_records \cup {BargingRecord(p)}
  /\ Return(p, [Call(p) EXCEPT !.result = "ok", !.row = cur[p].id,
                               !.applied = TRUE])
  /\ history' = history \cup RowStates(stock')
  /\ UNCHANGED <<production_records, stock_adjustments, audit_log,
                 deleted_at>>

\* ---------------------------------------------------------------- createStockAdjustment
\* stock.createAdjustment: stock_id names a row or not, adjustment_amount is
\* any number
CallCreateStockAdjustment(p) ==
  /\ Starts(p)
  /\ \E sid \in 1..(Len(stock) + 1), amount \in Amounts :
       calls' = Append(calls, NewCall("adjustment", "", "", sid, amount))
  /\ pc' = [pc EXCEPT ![p] = "adj_read"]
  /\ UNCHANGED <<tables, cur, tx>>

\* the check on the new balance left out
NegativeStock_Unchecked(newTonnage) == FALSE

\* if (newTonnage < 0)
NegativeStock(newTonnage) == newTonnage < 0

\* SELECT the row by id, outside the transaction; newTonnage < 0 throws
Adj_ReadStock(p) ==
  /\ pc[p] = "adj_read"
  /\ LET sid == Call(p).stock_id IN
       IF sid \notin DOMAIN stock
         THEN Abort(p, "not found")
       ELSE IF NegativeStock(stock[sid].tonnage + Call(p).amount)
         THEN Abort(p, "cannot be negative")
       ELSE /\ cur' = [cur EXCEPT ![p] = Row(sid)]
            /\ Goto(p, "adj_check")
            /\ UNCHANGED <<tables, tx>>

\* in the transaction: SELECT ... WHERE id AND version = originalStock.version
Adj_CheckVersion(p) ==
  /\ pc[p] = "adj_check"
  /\ IF VersionMatches(cur[p].id, cur[p].version)
       THEN /\ Goto(p, "adj_update")
            /\ UNCHANGED <<tables, cur, tx>>
       ELSE Abort(p, "modified by another")

\* UPDATE ... SET tonnage = newTonnage, version = originalStock.version + 1
\* WHERE id (the version is not in the WHERE)
Adj_UpdateStock(p) ==
  /\ pc[p] = "adj_update"
  /\ ~LockedByOther(cur[p].id, p)
  /\ tx' = [tx EXCEPT ![p].update =
       [id |-> cur[p].id, tonnage |-> cur[p].tonnage + Call(p).amount,
        version |-> cur[p].version + 1]]
  /\ calls' = [calls EXCEPT ![p].stale =
                 ~VersionMatches(cur[p].id, cur[p].version)]
  /\ pc' = [pc EXCEPT ![p] = "adj_insert"]
  /\ UNCHANGED <<tables, cur>>

\* INSERT the stock_adjustments row (pending)
Adj_InsertAdjustment(p) ==
  /\ pc[p] = "adj_insert"
  /\ tx' = [tx EXCEPT ![p].inserts = @ \cup {"stock_adjustments"}]
  /\ Goto(p, "adj_audit")
  /\ UNCHANGED <<tables, cur>>

\* INSERT the audit_log row (pending)
Adj_InsertAudit(p) ==
  /\ pc[p] = "adj_audit"
  /\ tx' = [tx EXCEPT ![p].inserts = @ \cup {"audit_log"}]
  /\ Goto(p, "adj_commit")
  /\ UNCHANGED <<tables, cur>>

\* an adjustment record whose previous_tonnage is read again when it is
\* inserted
AdjustmentRecord_Reread(p) ==
  [id |-> p, stock_id |-> Call(p).stock_id,
   previous_tonnage |-> stock[Call(p).stock_id].tonnage,
   new_tonnage |-> cur[p].tonnage + Call(p).amount,
   adjustment_amount |-> Call(p).amount, approved_by |-> 0,
   approved_at |-> 0]

\* the stock_adjustments row: previous_tonnage and new_tonnage as computed
\* from the row read at the start, approved_by NULL
AdjustmentRecord(p) ==
  [id |-> p, stock_id |-> Call(p).stock_id,
   previous_tonnage |-> cur[p].tonnage,
   new_tonnage |-> cur[p].tonnage + Call(p).amount,
   adjustment_amount |-> Call(p).amount, approved_by |-> 0,
   approved_at |-> 0]

\* the callback returns: COMMIT
Adj_Commit(p) ==
  /\ pc[p] = "adj_commit"
  /\ stock' = CommitStock(p)
  /\ stock_adjustments' = stock_adjustments \cup {AdjustmentRecord(p)}
  /\ audit_log' = audit_log \cup {[action |-> "stock_adjustment_create",
                                   record_id |-> p]}
  /\ Return(p, [Call(p) EXCEPT !.result = "ok", !.row = cur[p].id,
                               !.applied = TRUE])
  /\ history' = history \cup RowStates(stock')
  /\ UNCHANGED <<production_records, barging_records,
                 deleted_at>>

\* ---------------------------------------------------------------- approveStockAdjustment
\* the users that approve; approved_by = 0 is the NULL of a pending adjustment
Approvers == {1, 2}

\* the ids stock.approveAdjustment is called with: those of the adjustment
\* records and one that names no record
AdjustmentIds == {a.id : a \in stock_adjustments} \cup {0}

NewApproval(adjustmentId, approvedBy) ==
  [kind |-> "approval", adjustment_id |-> adjustmentId,
   approved_by |-> approvedBy, contractor_id |-> "", jetty_id |-> "",
   stock_id |-> 0, amount |-> 0, result |-> "running", row |-> 0,
   created |-> FALSE, applied |-> FALSE, stale |-> FALSE, failed_at |-> "",
   earlier |-> FALSE, operator_id |-> 0]

\* the committed adjustment records with this id (none or one)
AdjustmentsWithId(adjustmentId) ==
  {a \in stock_adjustments : a.id = adjustmentId}

\* stock.approveAdjustment: approveStockAdjustment(adjustmentId, approvedBy)
CallApproveStockAdjustment(p) ==
  /\ Starts(p)
  /\ \E adjustmentId \in AdjustmentIds, approvedBy \in Approvers :
       calls' = Append(calls, NewApproval(adjustmentId, approvedBy))
  /\ pc' = [pc EXCEPT ![p] = "appr_select"]
  /\ UNCHANGED <<tables, cur, tx>>

\* the check on approved_by left out
AlreadyApproved_Unchecked(adjustments) == FALSE

\* adjustments[0].approved_by !== null
AlreadyApproved(adjustments) == \E a \in adjustments : a.approved_by # 0

\* in the transaction: SELECT the adjustment by id; none: throw 'not found';
\* approved_by !== null: throw 'already approved'
Appr_Select(p) ==
  /\ pc[p] = "appr_select"
  /\ LET adjustments == AdjustmentsWithId(Call(p).adjustment_id) IN
       IF adjustments = {}
         THEN Abort(p, "adjustment not found")
       ELSE IF AlreadyApproved(adjustments)
         THEN Abort(p, "already approved")
       ELSE /\ Goto(p, "appr_update")
            /\ UNCHANGED <<tables, cur, tx>>

\* the adjustment row is locked by the pending UPDATE of another approval
ApprovalLockedByOther(adjustmentId, p) ==
  \E q \in CallIds :
    /\ q # p
    /\ pc[q] \in {"appr_audit", "appr_commit"}
    /\ Call(q).adjustment_id = adjustmentId

\* UPDATE stock_adjustments SET approved_by, approved_at = new Date()
\* WHERE id (pending; no condition on approved_by)
Appr_Update(p) ==
  /\ pc[p] = "appr_update"
  /\ ~ApprovalLockedByOther(Call(p).adjustment_id, p)
  /\ tx' = [tx EXCEPT ![p].inserts = @ \cup {"approval"}]
  /\ Goto(p, "appr_audit")
  /\ UNCHANGED <<tables, cur>>

\* INSERT the audit_log row 'stock_adjustment_approve' (pending)
Appr_InsertAudit(p) ==
  /\ pc[p] = "appr_audit"
  /\ tx' = [tx EXCEPT ![p].inserts = @ \cup {"audit_log"}]
  /\ Goto(p, "appr_commit")
  /\ UNCHANGED <<tables, cur>>

\* an approval whose UPDATE has no WHERE: every record is marked
Approved_All(p) ==
  {[a EXCEPT !.approved_by = Call(p).approved_by, !.approved_at = p] :
     a \in stock_adjustments}

\* the adjustment records after the approval of p: the record it names with
\* approved_by and approved_at set (approved_at: the instant of the call p)
Approved(p) ==
  {IF a.id = Call(p).adjustment_id
     THEN [a EXCEPT !.approved_by = Call(p).approved_by, !.approved_at = p]
     ELSE a : a \in stock_adjustments}

\* the callback returns: COMMIT
Appr_Commit(p) ==
  /\ pc[p] = "appr_commit"
  /\ stock_adjustments' = Approved(p)
  /\ audit_log' = audit_log \cup {[action |-> "stock_adjustment_approve",
                                   record_id |-> Call(p).adjustment_id]}
  /\ Return(p, [Call(p) EXCEPT !.result = "ok", !.applied = TRUE])
  /\ UNCHANGED <<stock, production_records, barging_records, history,
                 deleted_at>>

\* ---------------------------------------------------------------- updateStockFromProduction
\* called with the contractor, the jetty and the tonnage of a production record
CallUpdateStockFromProduction(p) ==
  /\ Starts(p)
  /\ \E c \in Contractors, j \in Jetties, tonnage \in 1..MaxTonnage :
       calls' = Append(calls, NewCall("fromProduction", c, j, 0, tonnage))
  /\ pc' = [pc EXCEPT ![p] = "ufp_read"]
  /\ UNCHANGED <<tables, cur, tx>>

\* SELECT the rows of the pair outside the transaction (existingStock[0])
UFP_ReadStock(p) ==
  /\ pc[p] = "ufp_read"
  /\ LET rows == RowsOf(Call(p).contractor_id, Call(p).jetty_id) IN
       IF rows = {}
         THEN /\ cur' = [cur EXCEPT ![p] = NoRow]
              /\ Goto(p, "ufp_insert")
         ELSE \E r \in rows : /\ cur' = [cur EXCEPT ![p] = Row(r)]
                              /\ Goto(p, "ufp_check")
  /\ UNCHANGED <<tables, tx>>

\* in the transaction: SELECT ... WHERE id AND version = originalStock.version
UFP_CheckVersion(p) ==
  /\ pc[p] = "ufp_check"
  /\ IF VersionMatches(cur[p].id, cur[p].version)
       THEN /\ Goto(p, "ufp_update")
            /\ UNCHANGED <<tables, cur, tx>>
       ELSE Abort(p, "modified by another")

\* UPDATE ... SET tonnage = newTonnage, version = originalStock.version + 1 WHERE id
UFP_UpdateStock(p) ==
  /\ pc[p] = "ufp_update"
  /\ ~LockedByOther(cur[p].id, p)
  /\ tx' = [tx EXCEPT ![p].update =
       [id |-> cur[p].id, tonnage |-> cur[p].tonnage + Call(p).amount,
        version |-> cur[p].version + 1]]
  /\ calls' = [calls EXCEPT ![p].stale =
                 ~VersionMatches(cur[p].id, cur[p].version)]
  /\ pc' = [pc EXCEPT ![p] = "ufp_commit"]
  /\ UNCHANGED <<tables, cur>>

\* else: INSERT a new stock row, version 1 (pending)
UFP_InsertStock(p) ==
  /\ pc[p] = "ufp_insert"
  /\ tx' = [tx EXCEPT ![p].inserts = @ \cup {"stock"}]
  /\ Goto(p, "ufp_commit")
  /\ UNCHANGED <<tables, cur>>

\* the callback returns: COMMIT
UFP_Commit(p) ==
  /\ pc[p] = "ufp_commit"
  /\ stock' = CommitStock(p)
  /\ Return(p, [Call(p) EXCEPT !.result = "ok", !.applied = TRUE,
                  !.created = (cur[p].id = 0),
                  !.row = IF cur[p].id = 0 THEN Len(stock) + 1 ELSE cur[p].id])
  /\ history' = history \cup RowStates(stock')
  /\ UNCHANGED <<production_records, barging_records, stock_adjustments,
                 audit_log,
                 deleted_at>>

\* ---------------------------------------------------------------- updateStockFromBarging
\* called with the contractor, the jetty and the tonnage of a barging record
CallUpdateStockFromBarging(p) ==
  /\ Starts(p)
  /\ \E c \in Contractors, j \in Jetties, tonnage \in 1..MaxTonnage :
       calls' = Append(calls, NewCall("fromBarging", c, j, 0, tonnage))
  /\ pc' = [pc EXCEPT ![p] = "ufb_read"]
  /\ UNCHANGED <<tables, cur, tx>>

\* SELECT the rows of the pair outside the transaction, then the checks
UFB_ReadStock(p) ==
  /\ pc[p] = "ufb_read"
  /\ LET rows == RowsOf(Call(p).contractor_id, Call(p).jetty_id) IN
       IF rows = {}
         THEN Abort(p, "no stock found")
         ELSE \E r \in rows :
           IF stock[r].tonnage < Call(p).amount
             THEN Abort(p, "insufficient stock")
           ELSE /\ cur' = [cur EXCEPT ![p] = Row(r)]
                /\ Goto(p, "ufb_check")
                /\ UNCHANGED <<tables, tx>>

\* in the transaction: SELECT ... WHERE id AND version = originalStock.version
UFB_CheckVersion(p) ==
  /\ pc[p] = "ufb_check"
  /\ IF VersionMatches(cur[p].id, cur[p].version)
       THEN /\ Goto(p, "ufb_update")
            /\ UNCHANGED <<tables, cur, tx>>
       ELSE Abort(p, "modified by another")

\* UPDATE ... SET tonnage = newTonnage, version = originalStock.version + 1 WHERE id
UFB_UpdateStock(p) ==
  /\ pc[p] = "ufb_update"
  /\ ~LockedByOther(cur[p].id, p)
  /\ tx' = [tx EXCEPT ![p].update =
       [id |-> cur[p].id, tonnage |-> cur[p].tonnage - Call(p).amount,
        version |-> cur[p].version + 1]]
  /\ calls' = [calls EXCEPT ![p].stale =
                 ~VersionMatches(cur[p].id, cur[p].version)]
  /\ pc' = [pc EXCEPT ![p] = "ufb_commit"]
  /\ UNCHANGED <<tables, cur>>

\* the callback returns: COMMIT
UFB_Commit(p) ==
  /\ pc[p] = "ufb_commit"
  /\ stock' = CommitStock(p)
  /\ Return(p, [Call(p) EXCEPT !.result = "ok", !.row = cur[p].id,
                               !.applied = TRUE])
  /\ history' = history \cup RowStates(stock')
  /\ UNCHANGED <<production_records, barging_records, stock_adjustments,
                 audit_log,
                 deleted_at>>

\* ---------------------------------------------------------------- the store fails
\* the statement a running call executes next fails in the store (connection
\* lost, statement rejected): the handler's catch rethrows; inside
\* db.transaction the transaction rolls back, outside it what was committed
\* before stays
StoreError(p) ==
  /\ pc[p] \notin {"idle", "done"}
  /\ stock' = RollbackStock(p)
  /\ barging_records' = RollbackBargingRecords(p)
  /\ Return(p, [Call(p) EXCEPT !.result = "store error", !.failed_at = pc[p],
                               !.row = cur[p].id])
  /\ history' = history \cup RowStates(stock')
  /\ UNCHANGED <<production_records, stock_adjustments, audit_log,
                 deleted_at>>

\* ------------------------------------------------------------ deleteContractor
\* contractors.delete: deleteContractor(id, deletedBy), no transaction: each
\* statement is committed at once
CallDeleteContractor(p) ==
  /\ Starts(p)
  /\ \E c \in ContractorIds :
       calls' = Append(calls, NewCall("delete", c, "", 0, 0))
  /\ pc' = [pc EXCEPT ![p] = "del_get"]
  /\ UNCHANGED <<tables, cur, tx>>

\* SELECT ... FROM contractors WHERE id = <id> AND deleted_at IS NULL
getContractorById(id) ==
  {r \in contractorsTable : r.id = id /\ deleted_at[r.id] = 0}

\* 1. the contractor exists and is not deleted yet
Del_GetContractor(p) ==
  /\ pc[p] = "del_get"
  /\ IF getContractorById(Call(p).contractor_id) = {}
       THEN Throw(p, "contractor not found or already deleted")
     ELSE Goto(p, "del_stock") /\ UNCHANGED <<cur, tx>>
  /\ UNCHANGED tables

hasActiveStock_Unchecked(id) == FALSE

\* activeStock.some(stock => parseFloat(stock.tonnage) > 0) over the rows
\* SELECT ... FROM stock WHERE contractor_id = <id>
hasActiveStock(id) ==
  \E r \in DOMAIN stock : stock[r].contractor_id = id /\ stock[r].tonnage > 0

\* 2. a contractor with a positive balance is not deleted
Del_SelectStock(p) ==
  /\ pc[p] = "del_stock"
  /\ IF hasActiveStock(Call(p).contractor_id)
       THEN Throw(p, "cannot delete contractor with active stock")
     ELSE Goto(p, "del_update") /\ UNCHANGED <<cur, tx>>
  /\ UNCHANGED tables

\* 3. UPDATE contractors SET deleted_at = now WHERE id = <id> (is_active is
\* left as it is)
Del_UpdateContractor(p) ==
  /\ pc[p] = "del_update"
  /\ deleted_at' = [deleted_at EXCEPT ![Call(p).contractor_id] = p]
  /\ Goto(p, "del_audit")
  /\ UNCHANGED <<stock, production_records, barging_records, stock_adjustments,
                 audit_log, history, cur, tx>>

\* the audit row of a deletion
DeletionAudit(p) ==
  [action |-> "DELETE", table_name |-> "contractors",
   record_id |-> Call(p).contractor_id, user_id |-> p]

\* 4. INSERT INTO audit_log; return true
Del_InsertAudit(p) ==
  /\ pc[p] = "del_audit"
  /\ audit_log' = audit_log \cup {DeletionAudit(p)}
  /\ Return(p, [Call(p) EXCEPT !.result = "ok", !.applied = TRUE])
  /\ UNCHANGED <<stock, production_records, barging_records, stock_adjustments,
                 history, deleted_at>>

\* ---------------------------------------------------------------- specification
Next ==
  \E p \in CallIds :
    \/ CallCreateProductionRecord(p)
    \/ Prod_Validate(p)
    \/ Prod_InsertRecord(p)
    \/ Prod_SelectStock(p)
    \/ Prod_UpdateStock(p)
    \/ Prod_InsertStock(p)
    \/ CallCreateBargingRecord(p)
    \/ Barge_Validate(p)
    \/ Barge_SelectStock(p)
    \/ Barge_InsertRecord(p)
    \/ Barge_UpdateStock(p)
    \/ Barge_Commit(p)
    \/ CallCreateStockAdjustment(p)
    \/ Adj_ReadStock(p)
    \/ Adj_CheckVersion(p)
    \/ Adj_UpdateStock(p)
    \/ Adj_InsertAdjustment(p)
    \/ Adj_InsertAudit(p)
    \/ Adj_Commit(p)
    \/ StoreError(p)

Spec == Init /\ [][Next]_vars

\* the stock handlers called directly as well (updateStockFromProduction and
\* updateStockFromBarging are exported by the stock handlers but not routed)
NextLedger ==
  \/ Next
  \/ \E p \in CallIds :
       \/ CallUpdateStockFromProduction(p)
       \/ UFP_ReadStock(p)
       \/ UFP_CheckVersion(p)
       \/ UFP_UpdateStock(p)
       \/ UFP_InsertStock(p)
       \/ UFP_Commit(p)
       \/ CallUpdateStockFromBarging(p)
       \/ UFB_ReadStock(p)
       \/ UFB_CheckVersion(p)
       \/ UFB_UpdateStock(p)
       \/ UFB_Commit(p)

SpecLedger == Init /\ [][NextLedger]_vars

Quiescent == \A p \in CallIds : pc[p] \in {"idle", "done"}

\* ---------------------------------------------------------------- two outflows race
InitialTonnage == 3    \* the balance two concurrent outflows draw on

TwoCallers == {2, 3}

\* a stock row at version 1 and two createBargingRecord calls just started,
\* each tonnage within the balance, their sum above it
InitTwoBargings ==
  /\ After(<<EarlierIntake(InitialTonnage)>>)
  /\ \E t1, t2 \in 1..InitialTonnage :
       /\ t1 + t2 > InitialTonnage
       /\ calls = <<EarlierIntake(InitialTonnage),
                    NewCall("barging", "c1", "j1", 0, t1),
                    NewCall("barging", "c1", "j1", 0, t2)>>
  /\ pc = [p \in CallIds |-> IF p \in TwoCallers THEN "barge_select"
                             ELSE IF p = 1 THEN "done" ELSE "idle"]

NextTwoBargings ==
  \E p \in TwoCallers :
    \/ Barge_SelectStock(p)
    \/ Barge_InsertRecord(p)
    \/ Barge_UpdateStock(p)
    \/ Barge_Commit(p)

SpecTwoBargings == InitTwoBargings /\ [][NextTwoBargings]_vars

\* ---------------------------------------------------------------- what the calls did
\* the signed delta of a call: +tonnage for production, -tonnage for barging,
\* adjustment_amount for an adjustment
Delta(call) == IF call.kind = "barging" THEN 0 - call.amount ELSE call.amount

Succeeded(c) == calls[c].result = "ok"

\* the sum of the deltas of the calls on row r that returned success
SumOfDeltas(r) ==
  LET sum[i \in 0..Len(calls)] ==
        IF i = 0 THEN 0
        ELSE sum[i - 1] + (IF Succeeded(i) /\ calls[i].row = r
                             THEN Delta(calls[i]) ELSE 0)
  IN sum[Len(calls)]

\* the successful calls that changed (did not create) row r
Mutations(r) ==
  {c \in DOMAIN calls : Succeeded(c) /\ calls[c].row = r /\ ~calls[c].created}

\* ---------------------------------------------------------------- C1
\* C1: no lost updates: once all calls have finished, the tonnage of every
\* stock row is the sum of the signed deltas of the calls on it that returned
\* success (the row's initial tonnage is the delta of the call that created it).
C1_NoLostUpdates ==
  Quiescent => \A r \in DOMAIN stock : stock[r].tonnage = SumOfDeltas(r)

C3_OneOutflowWins ==
  Quiescent =>
    \E w, l \in TwoCallers :
      /\ w # l
      /\ Succeeded(w)
      /\ calls[l].result \in {"insufficient stock", "modified by another"}
      /\ stock[1].tonnage = InitialTonnage - calls[w].amount
      /\ stock[1].version = 1 + 1

\* both calls read the row before either wrote it; the loser's update matched
\* no row
C3_Witness ==
  /\ Quiescent
  /\ \E l \in TwoCallers : calls[l].result = "modified by another"

\* ---------------------------------------------------------------- C4
\* C4: two production calls, the only calls made, for a pair without a stock
\* row: both succeed, and afterwards the pair has exactly one row, whose
\* tonnage is the sum of both tonnages and whose version is 2.
C4_LazyCreationRace ==
  (/\ Quiescent
   /\ Len(calls) = 2
   /\ \A c \in DOMAIN calls :
        /\ calls[c].kind = "production"
        /\ ~calls[c].earlier
        /\ calls[c].result # "store error"
   /\ calls[1].contractor_id = calls[2].contractor_id
   /\ calls[1].jetty_id = calls[2].jetty_id)
  => /\ Succeeded(1) /\ Succeeded(2)
     /\ \E r \in DOMAIN stock :
          /\ RowsOf(calls[1].contractor_id, calls[1].jetty_id) = {r}
          /\ stock[r].tonnage = calls[1].amount + calls[2].amount
          /\ stock[r].version = 2

\* ---------------------------------------------------------------- C5
\* C5: in every reachable state there is at most one stock row per
\* (contractor_id, jetty_id) pair.
C5_OneRowPerPair ==
  \A r1, r2 \in DOMAIN stock :
    (stock[r1].contractor_id = stock[r2].contractor_id
     /\ stock[r1].jetty_id = stock[r2].jetty_id) => r1 = r2

\* ---------------------------------------------------------------- C6
\* C6: no call commits a tonnage to an existing stock row that it computed
\* from a version which was not the row's version at the moment of the write.
C6_CheckAndSet ==
  \A c \in DOMAIN calls : calls[c].applied => ~calls[c].stale

\* ---------------------------------------------------------------- C7
\* C7: no call returns success without its delta having been applied to the
\* stock row: a version-checked update that matches no row makes the call fail.
C7_ConflictNotSwallowed ==
  \A c \in DOMAIN calls : Succeeded(c) => calls[c].applied

\* ---------------------------------------------------------------- C8
\* C8: a row's version is 1 plus the number of successful mutations of the
\* row, and two different committed balances of a row never carry the same
\* version.
C8_VersionCountsMutations ==
  /\ Quiescent =>
       \A r \in DOMAIN stock : stock[r].version = 1 + Cardinality(Mutations(r))
  /\ \A h1, h2 \in history :
       (h1.row = h2.row /\ h1.version = h2.version) => h1.tonnage = h2.tonnage

\* ---------------------------------------------------------------- C9
\* a step in which the createStockAdjustment call of p fails
AdjustmentFails(p) ==
  /\ pc[p] \notin {"idle", "done"}
  /\ Call(p).kind = "adjustment"
  /\ pc'[p] = "done"
  /\ calls'[p].result # "ok"

\* C9: journal atomicity: a createStockAdjustment call that fails, at whatever
\* statement, leaves the stock table and the journal as they were, and in
\* every committed state the stock change of an adjustment is present iff its
\* journal record is.
C9_JournalAtomicity ==
  /\ [](\A c \in DOMAIN calls : calls[c].kind = "adjustment" =>
          (calls[c].applied <=> \E a \in stock_adjustments : a.id = c))
  /\ [][\A p \in CallIds : AdjustmentFails(p) =>
          (stock' = stock /\ stock_adjustments' = stock_adjustments)]_vars

\* the store failed the journal insert, the audit insert or the commit of an
\* adjustment whose stock update had executed
C9_Witness ==
  \E c \in DOMAIN calls :
    /\ calls[c].kind = "adjustment"
    /\ calls[c].failed_at \in {"adj_insert", "adj_audit", "adj_commit"}

\* ---------------------------------------------------------------- C10
\* C10: production intake is all-or-nothing: once no call is running, a
\* production record is persisted iff the stock change of its call is.
C10_ProductionAllOrNothing ==
  Quiescent =>
    \A c \in DOMAIN calls : calls[c].kind = "production" =>
      (calls[c].applied <=> \E rec \in production_records : rec.id = c)

\* ---------------------------------------------------------------- approvals
\* the createStockAdjustment call, made before the behaviour starts, that
\* wrote the adjustment record the behaviour starts with
EarlierAdjustment(amount) ==
  [NewCall("adjustment", "", "", 1, amount) EXCEPT
     !.result = "ok", !.row = 1, !.applied = TRUE, !.earlier = TRUE]

\* the tables after an intake and an adjustment of its row: the row at
\* version 2 and one adjustment record, not approved
InitApproval ==
  /\ \E t \in 1..MaxTonnage, amount \in Amounts :
       /\ t + amount >= 0
       /\ calls = <<EarlierIntake(t), EarlierAdjustment(amount)>>
       /\ stock = <<[contractor_id |-> "c1", jetty_id |-> "j1",
                     tonnage |-> t + amount, version |-> 2]>>
       /\ production_records =
            {[id |-> 1, contractor_id |-> "c1", jetty_id |-> "j1", tonnage |-> t]}
       /\ stock_adjustments =
            {[id |-> 2, stock_id |-> 1, previous_tonnage |-> t,
              new_tonnage |-> t + amount, adjustment_amount |-> amount,
              approved_by |-> 0, approved_at |-> 0]}
       /\ history = {[row |-> 1, version |-> 1, tonnage |-> t],
                     [row |-> 1, version |-> 2, tonnage |-> t + amount]}
  /\ barging_records = {}
  /\ audit_log = {[action |-> "stock_adjustment_create", record_id |-> 2]}
  /\ deleted_at = [c \in {r.id : r \in contractorsTable} |-> 0]
  /\ pc = [p \in CallIds |-> IF p \in DOMAIN calls THEN "done" ELSE "idle"]
  /\ cur = [p \in CallIds |-> NoRow]
  /\ tx = [p \in CallIds |-> NoTx]

\* approvals, next to further adjustments
NextApproval ==
  \E p \in CallIds :
    \/ CallApproveStockAdjustment(p)
    \/ Appr_Select(p)
    \/ Appr_Update(p)
    \/ Appr_InsertAudit(p)
    \/ Appr_Commit(p)
    \/ CallCreateStockAdjustment(p)
    \/ Adj_ReadStock(p)
    \/ Adj_CheckVersion(p)
    \/ Adj_UpdateStock(p)
    \/ Adj_InsertAdjustment(p)
    \/ Adj_InsertAudit(p)
    \/ Adj_Commit(p)
    \/ StoreError(p)

SpecApproval == InitApproval /\ [][NextApproval]_vars

\* the same calls made one at a time
NextApprovalOneByOne ==
  NextApproval /\ (Len(calls') > Len(calls) => Quiescent)

SpecApprovalOneByOne == InitApproval /\ [][NextApprovalOneByOne]_vars

\* ---------------------------------------------------------------- C11
\* a step in which the createBargingRecord call of p fails
BargingFails(p) ==
  /\ pc[p] \notin {"idle", "done"}
  /\ Call(p).kind = "barging"
  /\ pc'[p] = "done"
  /\ calls'[p].result # "ok"

\* a step in which the createBargingRecord call of p returns its record
BargingSucceeds(p) ==
  /\ pc[p] \notin {"idle", "done"}
  /\ Call(p).kind = "barging"
  /\ pc'[p] = "done"
  /\ calls'[p].result = "ok"

\* C11: barging outflow is all-or-nothing: a createBargingRecord call that
\* fails, also after it inserted its barging record, leaves the stock table
\* and the barging records as they were; a call that succeeds leaves its
\* barging record and the stock row written (balance read minus its tonnage,
\* version + 1); a finished call has a barging record iff it succeeded.
C11_BargingAllOrNothing ==
  /\ [](\A c \in DOMAIN calls :
          (calls[c].kind = "barging" /\ pc[c] = "done") =>
            (Succeeded(c) <=> \E rec \in barging_records : rec.id = c))
  /\ [][\A p \in CallIds : BargingFails(p) =>
          (stock' = stock /\ barging_records' = barging_records)]_vars
  /\ [][\A p \in CallIds : BargingSucceeds(p) =>
          /\ BargingRecord(p) \in barging_records'
          /\ stock'[cur[p].id].tonnage = cur[p].tonnage - Call(p).amount
          /\ stock'[cur[p].id].version = stock[cur[p].id].version + 1]_vars

\* a call failed on the version conflict of its stock update, after it had
\* inserted its barging record
C11_Witness ==
  \E c \in DOMAIN calls :
    calls[c].kind = "barging" /\ calls[c].result = "modified by another"

\* ---------------------------------------------------------------- C12
\* production and barging calls one after the other: a call starts only when
\* no call is in progress
NextSequential ==
  \E p \in CallIds :
    \/ Quiescent /\ CallCreateProductionRecord(p)
    \/ Quiescent /\ CallCreateBargingRecord(p)
    \/ Prod_Validate(p)
    \/ Barge_Validate(p)
    \/ Prod_InsertRecord(p)
    \/ Prod_SelectStock(p)
    \/ Prod_UpdateStock(p)
    \/ Prod_InsertStock(p)
    \/ Barge_SelectStock(p)
    \/ Barge_InsertRecord(p)
    \/ Barge_UpdateStock(p)
    \/ Barge_Commit(p)
    \/ StoreError(p)

SpecSequential == Init /\ [][NextSequential]_vars

\* the reference ledger of one pair: no row, or a balance and a version
NoLedger == [exists |-> FALSE, tonnage |-> 0, version |-> 0]

\* what the reference ledger answers to a call
LedgerResult(l, call) ==
  IF call.kind = "production" THEN "ok"
  ELSE IF ~l.exists THEN "no stock found"
  ELSE IF l.tonnage < call.amount THEN "insufficient stock"
  ELSE "ok"

\* the reference ledger after a call that ended with result
LedgerStep(l, call, result) ==
  IF result # "ok" THEN l
  ELSE IF ~l.exists THEN [exists |-> TRUE, tonnage |-> call.amount, version |-> 1]
  ELSE [exists |-> TRUE, tonnage |-> l.tonnage + Delta(call),
        version |-> l.version + 1]

\* the reference ledger after the first n calls
LedgerAfter(n) ==
  LET ledger[i \in 0..n] ==
        IF i = 0 THEN NoLedger
        ELSE LedgerStep(ledger[i - 1], calls[i], calls[i].result)
  IN ledger[n]

\* C12: sequential ledger equivalence: in a non-overlapping sequence of
\* production and barging calls on one pair that starts with no stock row,
\* after each call every call so far has the result of the reference ledger
\* (unless the store failed it) and the pair's row is the reference ledger's:
\* created by the first successful intake with its tonnage and version 1,
\* tonnage added or subtracted and version + 1 by each later success,
\* unchanged by a failed call.
C12_SequentialLedger ==
  Quiescent =>
    /\ \A i \in DOMAIN calls :
         calls[i].result \in {"store error", LedgerResult(LedgerAfter(i - 1), calls[i])}
    /\ LET l == LedgerAfter(Len(calls)) IN
         IF l.exists
           THEN /\ Len(stock) = 1
                /\ stock[1].tonnage = l.tonnage
                /\ stock[1].version = l.version
           ELSE stock = <<>>

\* intake, intake, outflow of the whole balance: the row is at version 3
\* with tonnage 0
C12_Witness ==
  /\ Quiescent
  /\ Len(calls) = 3
  /\ calls[2].kind = "production" /\ Succeeded(2)
  /\ calls[3].kind = "barging" /\ Succeeded(3)
  /\ stock[1].tonnage = 0 /\ stock[1].version = 3

\* ---------------------------------------------------------------- C13
\* the call of p is about to read a stock row that its amount over-draws:
\* every row createBargingRecord / updateStockFromBarging can read holds less
\* than its tonnage, or the row createStockAdjustment names would go negative
Overdraws(p) ==
  \/ /\ pc[p] \in {"barge_select", "ufb_read"}
     /\ RowsOf(Call(p).contractor_id, Call(p).jetty_id) # {}
     /\ \A r \in RowsOf(Call(p).contractor_id, Call(p).jetty_id) :
          stock[r].tonnage < Call(p).amount
  \/ /\ pc[p] = "adj_read"
     /\ Call(p).stock_id \in DOMAIN stock
     /\ stock[Call(p).stock_id].tonnage + Call(p).amount < 0

OverdrawError(p) ==
  IF pc[p] = "adj_read" THEN "cannot be negative" ELSE "insufficient stock"

\* C13: an over-drawing mutation fails and changes nothing: the read of an
\* over-drawing createBargingRecord or updateStockFromBarging call ends the
\* call with 'insufficient stock', that of a createStockAdjustment call with
\* 'cannot be negative' (unless the store fails the read); the step leaves
\* every stock row, the barging records and the adjustment records as they
\* were, and a call that ended with one of these errors has no record.
C13_OverdrawChangesNothing ==
  /\ [](\A c \in DOMAIN calls :
          calls[c].result \in {"insufficient stock", "cannot be negative"} =>
            /\ ~calls[c].applied
            /\ \A rec \in barging_records \cup stock_adjustments : rec.id # c)
  /\ [][\A p \in CallIds : (Overdraws(p) /\ pc'[p] # pc[p]) =>
          /\ pc'[p] = "done"
          /\ calls'[p].result \in {OverdrawError(p), "store error"}
          /\ stock' = stock
          /\ barging_records' = barging_records
          /\ stock_adjustments' = stock_adjustments]_vars

\* an updateStockFromBarging call failed with 'insufficient stock' and a
\* createStockAdjustment call with 'cannot be negative'
C13_Witness ==
  /\ \E c \in DOMAIN calls :
       calls[c].kind = "fromBarging" /\ calls[c].result = "insufficient stock"
  /\ \E c \in DOMAIN calls :
       calls[c].kind = "adjustment" /\ calls[c].result = "cannot be negative"

\* ---------------------------------------------------------------- C14
\* the routed mutators called one at a time: a call starts only when no call
\* is in progress
NextOneByOne == Next /\ (Len(calls') > Len(calls) => Quiescent)

SpecOneByOne == Init /\ [][NextOneByOne]_vars

\* the call of p is about to read a row whose whole balance it draws
ReadsExactBalance(p) ==
  \/ /\ pc[p] = "barge_select"
     /\ RowsOf(Call(p).contractor_id, Call(p).jetty_id) # {}
     /\ \A r \in RowsOf(Call(p).contractor_id, Call(p).jetty_id) :
          stock[r].tonnage = Call(p).amount
  \/ /\ pc[p] = "adj_read"
     /\ Call(p).stock_id \in DOMAIN stock
     /\ Call(p).amount < 0
     /\ stock[Call(p).stock_id].tonnage + Call(p).amount = 0

\* the call of p, an outflow or a negative adjustment, has read a row whose
\* whole balance it draws
HoldsExactBalance(p) ==
  /\ pc[p] \notin {"idle", "done"}
  /\ Call(p).kind \in {"barging", "adjustment"}
  /\ cur[p].id # 0
  /\ Delta(Call(p)) < 0
  /\ cur[p].tonnage + Delta(Call(p)) = 0

\* C14: exact-balance edge case: with no other call in progress, a barging
\* outflow or a negative adjustment whose amount equals the row's tonnage is
\* not rejected by the check on the balance, and it ends with success
\* (unless the store fails it), leaving the row in place with tonnage 0 and
\* its version incremented by 1.
C14_ExactBalance ==
  /\ [][\A p \in CallIds : (ReadsExactBalance(p) /\ pc'[p] # pc[p]) =>
          \/ HoldsExactBalance(p)'
          \/ calls'[p].result = "store error"]_vars
  /\ [][\A p \in CallIds : (HoldsExactBalance(p) /\ pc'[p] = "done") =>
          \/ calls'[p].result = "store error"
          \/ /\ calls'[p].result = "ok"
             /\ Len(stock') = Len(stock)
             /\ stock'[cur[p].id].tonnage = 0
             /\ stock'[cur[p].id].version = stock[cur[p].id].version + 1]_vars

\* a negative adjustment of the whole balance has succeeded
C14_Witness ==
  \E c \in DOMAIN calls :
    /\ calls[c].kind = "adjustment" /\ calls[c].amount < 0 /\ Succeeded(c)
    /\ stock[calls[c].row].tonnage = 0
    /\ stock[calls[c].row].version = 2

\* ---------------------------------------------------------------- C15
\* the call of p is about to look for a stock row that does not exist
NoStockToRead(p) ==
  \/ /\ pc[p] \in {"barge_select", "ufb_read"}
     /\ RowsOf(Call(p).contractor_id, Call(p).jetty_id) = {}
  \/ /\ pc[p] = "adj_read"
     /\ Call(p).stock_id \notin DOMAIN stock

NoStockError(p) == IF pc[p] = "adj_read" THEN "not found" ELSE "no stock found"

\* a step in which the call of p finishes
Finishes(p) == pc[p] \notin {"idle", "done"} /\ pc'[p] = "done"

\* C15: only production intake creates a stock row: every step that adds a
\* stock row is the last step of a createProductionRecord or
\* updateStockFromProduction call; a createBargingRecord or
\* updateStockFromBarging call that finds no row of its pair ends with 'no
\* stock found' (not 'insufficient stock'), a createStockAdjustment call on a
\* stock_id without a row with 'not found' (unless the store fails the read);
\* that step changes no table, and such a call has no barging or adjustment
\* record.
C15_OnlyIntakeCreates ==
  /\ [](\A c \in DOMAIN calls :
          calls[c].result \in {"no stock found", "not found"} =>
            \A rec \in barging_records \cup stock_adjustments : rec.id # c)
  /\ [][Len(stock') # Len(stock) =>
          /\ Len(stock') = Len(stock) + 1
          /\ \E p \in CallIds :
               /\ Finishes(p)
               /\ Call(p).kind \in {"production", "fromProduction"}]_vars
  /\ [][\A p \in CallIds : (NoStockToRead(p) /\ pc'[p] # pc[p]) =>
          /\ pc'[p] = "done"
          /\ calls'[p].result \in {NoStockError(p), "store error"}
          /\ stock' = stock
          /\ barging_records' = barging_records
          /\ stock_adjustments' = stock_adjustments]_vars

\* an outflow (createBargingRecord or updateStockFromBarging) found no row of
\* its pair, a createStockAdjustment call named a stock_id without a row, and
\* no stock row exists
C15_Witness ==
  /\ stock = <<>>
  /\ \E c \in DOMAIN calls :
       calls[c].kind \in {"barging", "fromBarging"}
       /\ calls[c].result = "no stock found"
  /\ \E c \in DOMAIN calls :
       calls[c].kind = "adjustment" /\ calls[c].result = "not found"

\* ---------------------------------------------------------------- C16
\* the approveStockAdjustment calls on the adjustment adjustmentId
ApprovalsOf(adjustmentId) ==
  {c \in DOMAIN calls :
     calls[c].kind = "approval" /\ calls[c].adjustment_id = adjustmentId}

\* C16: approval monotonicity: an approveStockAdjustment call that finds
\* approved_by set ends with 'already approved' (unless the store fails it)
\* and leaves the adjustment records as they were; over a sequence of approve
\* calls on one adjustment, made one after the other, exactly the first that
\* the store does not fail succeeds, every later one ends with 'already
\* approved', and the record keeps the approver and the instant of the first.
C16_ApprovalMonotonic ==
  /\ [](Quiescent =>
          \A a \in stock_adjustments :
            LET succeeded == {c \in ApprovalsOf(a.id) : Succeeded(c)} IN
              /\ Cardinality(succeeded) <= 1
              /\ \A c \in ApprovalsOf(a.id) :
                   \/ calls[c].result = "store error"
                   \/ calls[c].result =
                        IF \E first \in succeeded : first < c
                          THEN "already approved" ELSE "ok"
              /\ \A c \in succeeded :
                   a.approved_by = calls[c].approved_by /\ a.approved_at = c
              /\ succeeded = {} => a.approved_by = 0)
  /\ [][\A p \in CallIds :
          (/\ pc[p] = "appr_select"
           /\ AlreadyApproved(AdjustmentsWithId(Call(p).adjustment_id))
           /\ pc'[p] # pc[p])
          => /\ pc'[p] = "done"
             /\ calls'[p].result \in {"already approved", "store error"}
             /\ stock_adjustments' = stock_adjustments]_vars

\* a second approval, by another user, of an approved adjustment was rejected
C16_Witness ==
  \E c1, c2 \in DOMAIN calls :
    /\ calls[c1].kind = "approval" /\ Succeeded(c1)
    /\ calls[c2].kind = "approval" /\ calls[c2].result = "already approved"
    /\ calls[c2].adjustment_id = calls[c1].adjustment_id
    /\ calls[c2].approved_by # calls[c1].approved_by

\* ---------------------------------------------------------------- C17
\* C17: every adjustment record persisted has new_tonnage = previous_tonnage
\* + adjustment_amount and new_tonnage >= 0, and right after the commit of a
\* createStockAdjustment call the tonnage of the stock row is the new_tonnage
\* of the record the call wrote.
C17_AdjustmentRecord ==
  /\ [](\A a \in stock_adjustments :
          /\ a.new_tonnage = a.previous_tonnage + a.adjustment_amount
          /\ a.new_tonnage >= 0)
  /\ [][\A p \in CallIds :
          (Finishes(p) /\ Call(p).kind = "adjustment" /\ calls'[p].result = "ok")
          => \E a \in stock_adjustments' \ stock_adjustments :
               /\ a.id = p
               /\ stock'[a.stock_id].tonnage = a.new_tonnage]_vars

\* an adjustment has committed over a row that another call had changed
\* since the adjustment read it
C17_Witness ==
  \E c \in DOMAIN calls :
    /\ calls[c].kind = "adjustment" /\ Succeeded(c) /\ calls[c].stale
    /\ \E a \in stock_adjustments : a.id = c /\ a.adjustment_amount # 0

\* ---------------------------------------------------------------- C18
\* a step of the approveStockAdjustment call of p
ApprovalStep(p) ==
  /\ pc[p] \notin {"idle", "done"}
  /\ Call(p).kind = "approval"
  /\ pc'[p] # pc[p]

\* the record a with nothing but approved_by and approved_at changed
SameButApproval(a, b) ==
  b = [a EXCEPT !.approved_by = b.approved_by, !.approved_at = b.approved_at]

\* C18: approveStockAdjustment changes only approved_by and approved_at of the
\* adjustment it names: no step of an approval, successful or failed, changes
\* a stock row, adds or removes an adjustment record, changes
\* previous_tonnage, new_tonnage or adjustment_amount of a record, or changes
\* another record at all; a failed approval changes no record.
C18_ApprovalFrame ==
  [][\A p \in CallIds : ApprovalStep(p) =>
       /\ stock' = stock
       /\ {a.id : a \in stock_adjustments'} = {a.id : a \in stock_adjustments}
       /\ Cardinality(stock_adjustments') = Cardinality(stock_adjustments)
       /\ \A a \in stock_adjustments :
            \E b \in stock_adjustments' :
              /\ b.id = a.id
              /\ SameButApproval(a, b)
              /\ (a.id # Call(p).adjustment_id => b = a)
       /\ (calls'[p].result # "ok" => stock_adjustments' = stock_adjustments)]_vars

\* an approval has succeeded while a second, unapproved adjustment record
\* exists
C18_Witness ==
  /\ \E c \in DOMAIN calls : calls[c].kind = "approval" /\ Succeeded(c)
  /\ \E a, b \in stock_adjustments :
       a.id # b.id /\ a.approved_by # 0 /\ b.approved_by = 0

\* ---------------------------------------------------------------- C19
\* no call has been made since the behaviour started
NoCallYet == \A c \in DOMAIN calls : calls[c].earlier

\* one call of the handler createProductionRecord or createBargingRecord,
\* made directly, on the tables of Init
NextHandlers ==
  \E p \in CallIds :
    \/ NoCallYet /\ InvokeCreateProductionRecord(p)
    \/ Prod_Validate(p)
    \/ Prod_InsertRecord(p)
    \/ Prod_SelectStock(p)
    \/ Prod_UpdateStock(p)
    \/ Prod_InsertStock(p)
    \/ NoCallYet /\ InvokeCreateBargingRecord(p)
    \/ Barge_Validate(p)
    \/ Barge_SelectStock(p)
    \/ Barge_InsertRecord(p)
    \/ Barge_UpdateStock(p)
    \/ Barge_Commit(p)
    \/ StoreError(p)

SpecHandlers == Init /\ [][NextHandlers]_vars

\* the contractor, the jetty and the operator the call names exist and are
\* active
ValidEntities(call) ==
  /\ \E r \in contractorsTable : r.id = call.contractor_id /\ r.is_active
  /\ \E r \in jettiesTable : r.id = call.jetty_id /\ r.is_active
  /\ \E r \in usersTable : r.id = call.operator_id /\ r.is_active

ValidationErrors ==
  {name \o error : name \in {"contractor", "jetty", "operator"},
                   error \in {" not found", " inactive", " not found or inactive"}}

\* C19: entity validation failures write nothing: the validation of a
\* createProductionRecord or createBargingRecord call that names a contractor,
\* jetty or operator which does not exist or is inactive ends the call with a
\* 'not found' / 'inactive' error (unless the store fails it) and leaves the
\* stock table, the production records and the barging records as they were;
\* such a call never has a record.
C19_ValidationWritesNothing ==
  /\ [](\A c \in DOMAIN calls :
          (calls[c].kind \in {"production", "barging"} /\ ~ValidEntities(calls[c]))
          => /\ pc[c] = "done" => calls[c].result \in ValidationErrors \cup {"store error"}
             /\ \A rec \in production_records \cup barging_records : rec.id # c)
  /\ [][\A p \in CallIds :
          (/\ pc[p] \in {"prod_validate", "barge_validate"}
           /\ ~ValidEntities(Call(p))
           /\ pc'[p] # pc[p])
          => /\ pc'[p] = "done"
             /\ stock' = stock
             /\ production_records' = production_records
             /\ barging_records' = barging_records]_vars

\* a barging call on a row with stock, naming an active contractor and jetty,
\* was rejected for its inactive operator
C19_Witness ==
  \E c \in DOMAIN calls :
    /\ calls[c].kind = "barging"
    /\ calls[c].result = "operator inactive"
    /\ stock # <<>>

\* ---------------------------------------------------------------- C20
\* C20: a createBargingRecord call with tonnage <= 0 that names an active
\* contractor, jetty and operator ends with 'tonnage must be positive'
\* (unless the store fails it), whether the pair has a stock row or not, and
\* it writes neither a stock row nor a barging record.
C20_BargingTonnagePositive ==
  \A c \in DOMAIN calls :
    (calls[c].kind = "barging" /\ calls[c].amount <= 0 /\ ValidEntities(calls[c]))
    => /\ pc[c] = "done" =>
            calls[c].result \in {"tonnage must be positive", "store error"}
       /\ ~calls[c].applied
       /\ \A rec \in barging_records : rec.id # c

\* ---------------------------------------------------------------- C21
\* C21: a createProductionRecord call with tonnage <= 0 that names an active
\* contractor, jetty and operator ends with an invalid-tonnage error (unless
\* the store fails it) and persists neither a production record nor a change
\* of a stock row.
C21_ProductionTonnagePositive ==
  \A c \in DOMAIN calls :
    (calls[c].kind = "production" /\ ~calls[c].earlier
     /\ calls[c].amount <= 0 /\ ValidEntities(calls[c]))
    => /\ pc[c] = "done" =>
            calls[c].result \in {"tonnage must be positive", "store error"}
       /\ ~calls[c].applied
       /\ \A rec \in production_records : rec.id # c

\* --------------------------------------------------------- contractor deletion
\* routed production and barging calls next to contractor deletions
NextContractors ==
  \E p \in CallIds :
    \/ CallCreateProductionRecord(p)
    \/ Prod_Validate(p)
    \/ Prod_InsertRecord(p)
    \/ Prod_SelectStock(p)
    \/ Prod_UpdateStock(p)
    \/ Prod_InsertStock(p)
    \/ CallCreateBargingRecord(p)
    \/ Barge_Validate(p)
    \/ Barge_SelectStock(p)
    \/ Barge_InsertRecord(p)
    \/ Barge_UpdateStock(p)
    \/ Barge_Commit(p)
    \/ CallDeleteContractor(p)
    \/ Del_GetContractor(p)
    \/ Del_SelectStock(p)
    \/ Del_UpdateContractor(p)
    \/ Del_InsertAudit(p)
    \/ StoreError(p)

SpecContractors == Init /\ [][NextContractors]_vars

\* C22: deleteContractor fails with the active-stock error, leaving deleted_at
\* unset and writing no audit row, whenever a stock row of the contractor has
\* tonnage > 0 when it looks; when every row of the contractor has tonnage 0
\* (or there is none) it goes on, and a deletion that returns has set
\* deleted_at and written its audit row.
C22_DeleteNeedsNoStock ==
  /\ [][\A p \in DOMAIN calls :
          (pc[p] = "del_stock" /\ pc'[p] # "del_stock")
          => IF \E r \in DOMAIN stock :
                   /\ stock[r].contractor_id = calls[p].contractor_id
                   /\ stock[r].tonnage > 0
               THEN /\ pc'[p] = "done"
                    /\ calls'[p].result \in
                         {"cannot delete contractor with active stock",
                          "store error"}
                    /\ deleted_at' = deleted_at
                    /\ audit_log' = audit_log
             ELSE \/ pc'[p] = "del_update"
                  \/ calls'[p].result = "store error"]_vars
  /\ [](\A p \in DOMAIN calls :
          (calls[p].kind = "delete" /\ pc[p] = "done")
          => /\ calls[p].result = "ok"
                  => /\ deleted_at[calls[p].contractor_id] # 0
                     /\ DeletionAudit(p) \in audit_log
             /\ calls[p].result = "cannot delete contractor with active stock"
                  => /\ deleted_at[calls[p].contractor_id] # p
                     /\ DeletionAudit(p) \notin audit_log)

\* a deletion was refused because of a positive balance, and the contractor
\* is still there
C22_Witness ==
  \E p \in DOMAIN calls :
    /\ calls[p].kind = "delete" /\ pc[p] = "done"
    /\ calls[p].result = "cannot delete contractor with active stock"
    /\ \E r \in DOMAIN stock :
         stock[r].contractor_id = calls[p].contractor_id /\ stock[r].tonnage > 0
    /\ deleted_at[calls[p].contractor_id] = 0

\* C29: in every reachable state a contractor whose deleted_at is set has no
\* stock row with tonnage > 0, also when a createProductionRecord call for the
\* contractor runs next to, or after, the deletion.
C29_DeletedHasNoStock ==
  \A r \in DOMAIN stock :
    deleted_at[stock[r].contractor_id] # 0 => stock[r].tonnage <= 0

\* ------------------------------------------------------------------- the ledger
\* the sum of the tonnage of the production or barging records in records
RECURSIVE TonnageSum(_)
TonnageSum(records) ==
  IF records = {} THEN 0
  ELSE LET rec == CHOOSE rec \in records : TRUE
       IN rec.tonnage + TonnageSum(records \ {rec})

\* the sum of the adjustment_amount of the adjustment records in records
RECURSIVE AdjustmentSum(_)
AdjustmentSum(records) ==
  IF records = {} THEN 0
  ELSE LET rec == CHOOSE rec \in records : TRUE
       IN rec.adjustment_amount + AdjustmentSum(records \ {rec})

\* the records of table that name the pair of stock row r
RecordsOfPair(table, r) ==
  {rec \in table : /\ rec.contractor_id = stock[r].contractor_id
                   /\ rec.jetty_id = stock[r].jetty_id}

\* the balance of row r the persisted records add up to
LedgerBalance(r) ==
  TonnageSum(RecordsOfPair(production_records, r))
  - TonnageSum(RecordsOfPair(barging_records, r))
  + AdjustmentSum({rec \in stock_adjustments : rec.stock_id = r})

\* C23: ledger/event conservation: when no call is in progress, the tonnage of
\* every stock row (each created by a production intake) is the sum of the
\* persisted production record tonnages of its pair, minus the sum of the
\* persisted barging record tonnages, plus the sum of the persisted adjustment
\* amounts of the row.
C23_LedgerConservation ==
  Quiescent => \A r \in DOMAIN stock : stock[r].tonnage = LedgerBalance(r)

\* C24: journal snapshots are taken at commit: the previous_tonnage an
\* adjustment records is the committed tonnage of the stock row immediately
\* before the adjustment's stock write (the row is locked by the writer from
\* its UPDATE to its COMMIT, so that tonnage is still the committed one while
\* the record is pending), whatever ran between the initial read and the
\* write.
C24_SnapshotAtWrite ==
  \A p \in DOMAIN calls :
    (calls[p].kind = "adjustment"
     /\ pc[p] \in {"adj_insert", "adj_audit", "adj_commit"})
    => AdjustmentRecord(p).previous_tonnage = stock[cur[p].id].tonnage

\* C25: of the approveStockAdjustment calls on one adjustment, overlapping or
\* not, at most one succeeds, and approved_by and approved_at, once set, are
\* never written again.
C25_OneApprovalWins ==
  /\ [](\A a \in stock_adjustments :
          Cardinality({c \in ApprovalsOf(a.id) : Succeeded(c)}) <= 1)
  /\ [][\A a \in stock_adjustments :
          a.approved_by # 0 => a \in stock_adjustments']_vars

\* ----------------------------------------------------------- mutators that race
\* the first statement of a routed call of each mutator
FirstStep(call) ==
  IF call.kind = "production" THEN "prod_validate"
  ELSE IF call.kind = "barging" THEN "barge_validate"
  ELSE "adj_read"

\* the calls on the row of (c1, j1), stock_id 1, that are valid against the
\* balance tonnage: any intake, an outflow within the balance, an adjustment
\* that leaves the balance >= 0
ValidMutators(tonnage) ==
  {NewCall("production", "c1", "j1", 0, t) : t \in 1..MaxTonnage}
  \cup {NewCall("barging", "c1", "j1", 0, t) :
          t \in {t \in 1..MaxTonnage : t <= tonnage}}
  \cup {NewCall("adjustment", "", "", 1, a) :
          a \in {a \in Amounts : tonnage + a >= 0}}

\* a stock row at version 1 and two mutator calls just started, each valid
\* against the balance
InitRace ==
  /\ After(<<EarlierIntake(InitialTonnage)>>)
  /\ \E call1, call2 \in ValidMutators(InitialTonnage) :
       calls = <<EarlierIntake(InitialTonnage), call1, call2>>
  /\ pc = [p \in CallIds |-> IF p \in TwoCallers THEN FirstStep(calls[p])
                             ELSE IF p = 1 THEN "done" ELSE "idle"]

NextRace ==
  \E p \in TwoCallers :
    \/ Prod_Validate(p)
    \/ Prod_InsertRecord(p)
    \/ Prod_SelectStock(p)
    \/ Prod_UpdateStock(p)
    \/ Barge_Validate(p)
    \/ Barge_SelectStock(p)
    \/ Barge_InsertRecord(p)
    \/ Barge_UpdateStock(p)
    \/ Barge_Commit(p)
    \/ Adj_ReadStock(p)
    \/ Adj_CheckVersion(p)
    \/ Adj_UpdateStock(p)
    \/ Adj_InsertAdjustment(p)
    \/ Adj_InsertAudit(p)
    \/ Adj_Commit(p)
    \/ StoreError(p)

SpecRace == InitRace /\ [][NextRace]_vars

\* C26: optimistic progress: of two mutator calls that race on one stock row,
\* each valid against the balance, at least one commits: a call that fails
\* with the version conflict has lost to a racer that returned success with
\* its write committed, and when both have returned and the store has failed
\* neither, one of them has succeeded and its write is the row's next
\* version.
C26_OptimisticProgress ==
  /\ \A p \in TwoCallers :
       calls[p].result = "modified by another"
       => \E q \in TwoCallers \ {p} : Succeeded(q) /\ calls[q].applied
  /\ (\A p \in TwoCallers :
         pc[p] = "done" /\ calls[p].result # "store error")
     => /\ \E p \in TwoCallers : Succeeded(p) /\ calls[p].applied
        /\ \E h \in history : h.row = 1 /\ h.version = 2

\* both racers have returned: one lost with the version conflict, the other
\* committed
C26_Witness ==
  \E p, q \in TwoCallers :
    /\ pc[p] = "done" /\ pc[q] = "done"
    /\ calls[p].result = "modified by another"
    /\ Succeeded(q) /\ calls[q].applied
    /\ stock[1].version = 2

\* the one read-check-write attempt of call c met a version conflict: its
\* version-checked UPDATE matched no row, or it wrote a balance computed from
\* a version that was no longer the row's
MetConflict(c) ==
  \/ calls[c].stale
  \/ /\ calls[c].kind = "production" /\ calls[c].row # 0
     /\ ~calls[c].created /\ ~calls[c].applied
     /\ calls[c].failed_at = ""

\* C27: bounded retry: every call makes a fixed number of read-check-write
\* attempts (here one: the handlers have no loop) and returns; a call whose
\* attempts are used up by version conflicts fails with 'modified by
\* another'.
C27_BoundedRetry ==
  \A c \in DOMAIN calls :
    (~calls[c].earlier /\ pc[c] = "done" /\ MetConflict(c))
    => calls[c].result \in {"modified by another", "store error"}

\* ------------------------------------------------------------------- two pairs
\* the two (contractor, jetty) pairs: c1 at either active jetty
PairJetties == {"j1", "j4"}

\* the intake that created the row of (c1, j4), stock row 2
EarlierIntakeAtOther(tonnage) ==
  [EarlierIntake(tonnage) EXCEPT !.jetty_id = "j4", !.row = 2]

\* the mutator calls on either pair: adjustments name one of the rows there
\* are
PairMutators(rows) ==
  {NewCall("production", "c1", j, 0, t) : j \in PairJetties, t \in 1..MaxTonnage}
  \cup {NewCall("barging", "c1", j, 0, t) :
          j \in PairJetties, t \in 1..MaxTonnage}
  \cup {NewCall("adjustment", "", "", sid, a) : sid \in 1..rows, a \in Amounts}

\* the row of (c1, j1), and the row of (c1, j4) or no row for that pair yet;
\* two mutator calls just started, each on either pair
InitTwoPairs ==
  /\ \E started \in {<<EarlierIntake(InitialTonnage)>>,
                      <<EarlierIntake(InitialTonnage),
                        EarlierIntakeAtOther(InitialTonnage)>>} :
       /\ After(started)
       /\ \E call1, call2 \in PairMutators(Len(started)) :
            calls = started \o <<call1, call2>>
  /\ pc = [p \in CallIds |->
            IF p \notin DOMAIN calls THEN "idle"
            ELSE IF calls[p].earlier THEN "done" ELSE FirstStep(calls[p])]

NextTwoPairs ==
  \E p \in CallIds :
    \/ Prod_Validate(p)
    \/ Prod_InsertRecord(p)
    \/ Prod_SelectStock(p)
    \/ Prod_UpdateStock(p)
    \/ Prod_InsertStock(p)
    \/ Barge_Validate(p)
    \/ Barge_SelectStock(p)
    \/ Barge_InsertRecord(p)
    \/ Barge_UpdateStock(p)
    \/ Barge_Commit(p)
    \/ Adj_ReadStock(p)
    \/ Adj_CheckVersion(p)
    \/ Adj_UpdateStock(p)
    \/ Adj_InsertAdjustment(p)
    \/ Adj_InsertAudit(p)
    \/ Adj_Commit(p)
    \/ StoreError(p)

SpecTwoPairs == InitTwoPairs /\ [][NextTwoPairs]_vars

\* stock row r (a row of the table, committed) is the one call targets: the
\* row an adjustment names, a row of the pair a production or barging names
Targets(call, row, r) ==
  IF call.kind = "adjustment" THEN call.stock_id = r
  ELSE row.contractor_id = call.contractor_id /\ row.jetty_id = call.jetty_id

\* the rows a step writes: the rows whose committed content changes and the
\* rows it adds
Written ==
  {r \in DOMAIN stock' : r \notin DOMAIN stock \/ stock'[r] # stock[r]}

\* C28: row independence: no step of a production, barging or adjustment call
\* changes the tonnage or version of a stock row of another pair, no step
\* writes more than one stock row or removes one, and a call that returns
\* success has inserted or updated one stock row.
C28_RowIndependence ==
  /\ [][\A p \in DOMAIN calls :
          pc'[p] # pc[p]
          => /\ DOMAIN stock \subseteq DOMAIN stock'
             /\ Cardinality(Written) <= 1
             /\ \A r \in Written : Targets(calls[p], stock'[r], r)]_vars
  /\ [](\A c \in DOMAIN calls : Succeeded(c) => calls[c].applied)

\* ------------------------------------------------------------------------ auth
\* expiresInHours of generateToken, in days: 24 h for access, 168 h for refresh
AccessDays == 1
RefreshDays == 7

TokenTypes == {"access", "refresh", "other"}

\* a token as verifyTokenJWT sees it: the number of its dot-separated parts,
\* the secret its signature over header.payload was made with, whether the
\* payload is parseable JSON, and the payload
Token(parts, secret, json, userId, type, exp) ==
  [parts |-> parts, signed_with |-> secret, json |-> json,
   payload |-> [userId |-> userId, type |-> type, exp |-> exp]]

\* the tokens a caller presents: one with two parts, one whose payload does
\* not parse, and every payload signed with JWT_SECRET or with another secret
Tokens ==
  {Token(2, "JWT_SECRET", TRUE, 1, "access", MaxTime),
   Token(3, "JWT_SECRET", FALSE, 1, "access", MaxTime)}
  \cup {Token(3, secret, TRUE, userId, type, exp) :
          secret \in {"JWT_SECRET", "other"}, userId \in UserIds,
          type \in TokenTypes, exp \in 0..MaxTime}

\* generateToken(payload, type) at instant now
generateToken(userId, type, now) ==
  Token(3, "JWT_SECRET", TRUE, userId, type,
        now + (IF type = "access" THEN AccessDays ELSE RefreshDays))

NoPayload == [userId |-> 0, type |-> "", exp |-> 0]

\* verifyTokenJWT(token) at instant now: the payload, or null (NoPayload)
verifyTokenJWT(token, now) ==
  IF token.parts # 3 THEN NoPayload
  ELSE IF token.signed_with # "JWT_SECRET" THEN NoPayload
  ELSE IF ~token.json THEN NoPayload
  ELSE IF token.payload.exp < now THEN NoPayload
  ELSE token.payload

\* a verifyToken or refreshToken call: the token presented, the instant of
\* the call, the outcome, the user returned and the tokens issued
AuthCall(kind, token, now) ==
  [kind |-> kind, token |-> token, now |-> now, result |-> "running",
   user |-> 0, issued |-> {}, earlier |-> FALSE]

\* the tokens a caller can present: any of Tokens, or one a refreshToken call
\* has issued
Presented == Tokens \cup UNION {calls[c].issued : c \in DOMAIN calls}

\* the instants a new call can be made at: time does not run backwards
Instants == {n \in 0..MaxTime : \A c \in DOMAIN calls : calls[c].now <= n}

CallVerifyToken(p) ==
  /\ Starts(p)
  /\ \E token \in Presented, now \in Instants :
       calls' = Append(calls, AuthCall("verifyToken", token, now))
  /\ pc' = [pc EXCEPT ![p] = "verify_decode"]
  /\ UNCHANGED <<tables, cur, tx>>

IsAccessToken_Unchecked(decoded) == TRUE

\* decoded.type !== 'access' returns null
IsAccessToken(decoded) == decoded.type = "access"

\* verifyTokenJWT, then the type check
Verify_Decode(p) ==
  /\ pc[p] = "verify_decode"
  /\ LET decoded == verifyTokenJWT(Call(p).token, Call(p).now) IN
       IF decoded = NoPayload \/ ~IsAccessToken(decoded)
         THEN Throw(p, "null")
       ELSE Goto(p, "verify_user") /\ UNCHANGED <<cur, tx>>
  /\ UNCHANGED tables

\* SELECT the user by id; no row or !is_active returns null, else the user
Verify_SelectUser(p) ==
  /\ pc[p] = "verify_user"
  /\ LET userId == Call(p).token.payload.userId IN
       IF ActiveRows(usersTable, userId) = {}
         THEN Throw(p, "null")
       ELSE Return(p, [Call(p) EXCEPT !.result = "user", !.user = userId])
  /\ UNCHANGED tables

CallRefreshToken(p) ==
  /\ Starts(p)
  /\ \E token \in Presented, now \in Instants :
       calls' = Append(calls, AuthCall("refreshToken", token, now))
  /\ pc' = [pc EXCEPT ![p] = "refresh_decode"]
  /\ UNCHANGED <<tables, cur, tx>>

\* verifyTokenJWT, then the type check
Refresh_Decode(p) ==
  /\ pc[p] = "refresh_decode"
  /\ LET decoded == verifyTokenJWT(Call(p).token, Call(p).now) IN
       IF decoded = NoPayload THEN Throw(p, "invalid refresh token")
       ELSE IF decoded.type # "refresh"
         THEN Throw(p, "invalid refresh token type")
       ELSE Goto(p, "refresh_user") /\ UNCHANGED <<cur, tx>>
  /\ UNCHANGED tables

\* SELECT the user by id; no row or !is_active throws
Refresh_SelectUser(p) ==
  /\ pc[p] = "refresh_user"
  /\ IF ActiveRows(usersTable, Call(p).token.payload.userId) = {}
       THEN Throw(p, "user not found or inactive")
     ELSE Goto(p, "refresh_audit") /\ UNCHANGED <<cur, tx>>
  /\ UNCHANGED tables

\* generate the new access and refresh token, INSERT the audit row, return
Refresh_InsertAudit(p) ==
  /\ pc[p] = "refresh_audit"
  /\ LET userId == Call(p).token.payload.userId IN
       /\ audit_log' = audit_log \cup
            {[action |-> "token_refresh", table_name |-> "users",
              record_id |-> userId, user_id |-> userId]}
       /\ Return(p, [Call(p) EXCEPT
                       !.result = "ok", !.user = userId,
                       !.issued = {generateToken(userId, "access", Call(p).now),
                                   generateToken(userId, "refresh", Call(p).now)}])
  /\ UNCHANGED <<stock, production_records, barging_records, stock_adjustments,
                 history, deleted_at>>

\* a statement on the store fails: verifyToken catches and returns null,
\* refreshToken rethrows
AuthStoreError(p) ==
  /\ pc[p] \in {"verify_user", "refresh_user", "refresh_audit"}
  /\ Throw(p, IF pc[p] = "verify_user" THEN "null" ELSE "store error")
  /\ UNCHANGED tables

InitAuth ==
  /\ calls = <<>>
  /\ After(calls)
  /\ pc = [p \in CallIds |-> "idle"]

NextAuth ==
  \E p \in CallIds :
    \/ CallVerifyToken(p)
    \/ Verify_Decode(p)
    \/ Verify_SelectUser(p)
    \/ CallRefreshToken(p)
    \/ Refresh_Decode(p)
    \/ Refresh_SelectUser(p)
    \/ Refresh_InsertAudit(p)
    \/ AuthStoreError(p)

SpecAuth == InitAuth /\ [][NextAuth]_vars

\* the token is signed with JWT_SECRET over a well-formed payload of the given
\* type and has not expired at instant now
ValidOfType(token, type, now) ==
  /\ token.parts = 3 /\ token.signed_with = "JWT_SECRET" /\ token.json
  /\ token.payload.exp >= now
  /\ token.payload.type = type

\* C30: token type separation: verifyToken returns a user only for a validly
\* signed, unexpired token of type 'access', and null for a 'refresh' token;
\* refreshToken issues tokens only for a validly signed, unexpired token of
\* type 'refresh' and rejects an 'access' token; no token is accepted by
\* both.
C30_TokenTypeSeparation ==
  /\ \A c \in DOMAIN calls :
       (calls[c].kind = "verifyToken" /\ pc[c] = "done")
       => /\ calls[c].result \in {"user", "null"}
          /\ calls[c].result = "user"
               => ValidOfType(calls[c].token, "access", calls[c].now)
          /\ calls[c].token.payload.type = "refresh" => calls[c].result = "null"
  /\ \A c \in DOMAIN calls :
       calls[c].kind = "refreshToken"
       => /\ calls[c].issued # {}
               => /\ calls[c].result = "ok"
                  /\ ValidOfType(calls[c].token, "refresh", calls[c].now)
          /\ calls[c].result = "ok" => calls[c].issued # {}
          /\ (pc[c] = "done" /\ calls[c].token.payload.type = "access")
               => calls[c].result \in {"invalid refresh token",
                                       "invalid refresh token type"}
  /\ \A c1, c2 \in DOMAIN calls :
       (/\ calls[c1].kind = "verifyToken" /\ calls[c1].result = "user"
        /\ calls[c2].kind = "refreshToken" /\ calls[c2].result = "ok")
       => calls[c1].token # calls[c2].token

\* a valid refresh token was turned down by verifyToken and accepted by
\* refreshToken
C30_Witness ==
  \E c1, c2 \in DOMAIN calls :
    /\ calls[c1].kind = "verifyToken" /\ calls[c1].result = "null"
    /\ ValidOfType(calls[c1].token, "refresh", calls[c1].now)
    /\ calls[c2].kind = "refreshToken" /\ calls[c2].result = "ok"
    /\ calls[c2].token = calls[c1].token

====
